---- MODULE Spec2Model ----
(***************************************************************************)
(* vicebrowser (src/browser.py): the tab manager, the history/favorites    *)
(* store and the URL-vs-query classifiers of ViceCityBrowser, as a state   *)
(* machine.                                                                *)
(*                                                                         *)
(* Strings are sequences of tokens.  A token is either one character       *)
(* ("a", ".", " ") or a fixed multi-character piece that contains neither  *)
(* a dot nor a space ("https://").  Tab positions are 1-based here (Qt     *)
(* counts from 0).  Zoom factors are kept in hundredths (0.9 is 90)         *)
(* together with the distance of the double from that decimal value.       *)
(* Timestamps count units of 12 hours.                                     *)
(***************************************************************************)
EXTENDS Integers, Sequences, FiniteSets, TLC

VARIABLES
    browsers,       \* every QWebEngineView created so far: id -> [url, zoom, err, i]
    tabs,           \* the tab strip of self.tabs: sequence of browser ids
    tabText,        \* the tab labels, aligned with tabs
    currentIndex,   \* self.tabs.currentIndex()
    home_url,       \* self.home_url
    background_image, \* self.background_image: a file path or "None"
    url_bar,        \* self.url_bar text
    favorite_btn,   \* icon of self.favorite_btn: "star" or "add_star"
    zoom_reset_btn, \* percentage shown by self.zoom_reset_btn
    history,        \* rows of table history, in rowid order
    historySeq,     \* AUTOINCREMENT counter of table history
    favorites,      \* rows of table favorites, in rowid order
    favoritesSeq,   \* AUTOINCREMENT counter of table favorites
    now,            \* the UTC clock
    utcOffset,      \* local time minus UTC on this machine
    current_search_engine, \* self.current_search_engine
    reply,          \* answer to the QMessageBox.question of the last handler
    lastCall,       \* the last call of a handler or store method and its result
    classified,     \* the last run of a URL-vs-query classifier and its outcome
    input,          \* the text this user types into the address bar or search box
    window,         \* the main window: geometry, isMaximized(), the resize fields
                    \* of ViceCityBrowser and drag_position of its title bar
    pointer         \* the mouse: position on the screen, the buttons held down,
                    \* the widget that has Qt's implicit mouse grab, and the
                    \* number of button presses so far

vars == <<browsers, tabs, tabText, currentIndex, home_url, url_bar,
          favorite_btn, zoom_reset_btn, history, historySeq, favorites,
          favoritesSeq, now, utcOffset, current_search_engine, reply,
          lastCall, classified, input, window, pointer, background_image>>

uiVars == <<browsers, tabs, tabText, currentIndex, home_url, url_bar,
            favorite_btn, zoom_reset_btn>>
storeVars == <<history, historySeq, favorites, favoritesSeq>>
geoVars == <<window, pointer>>

(***************************************************************************)
(* Bounds of the model.                                                    *)
(***************************************************************************)
MaxLen == 4          \* longest typed text, in tokens
MaxTabs == 2         \* most tabs open at once
MaxBrowsers == 2     \* most web views ever created
MaxHistoryId == 2    \* most history rows ever inserted
MaxFavoriteId == 3   \* most favorites rows ever inserted
MaxTime == 16        \* the clock stops advancing here
MaxZoomIns == 28     \* longest run of zoom_in calls that is counted
MaxPresses == 2      \* most presses of a mouse button
MaxStored == 10      \* most favorites in the database when the window opens

(***************************************************************************)
(* Strings.                                                                *)
(***************************************************************************)
Schemes == {"http://", "https://", "file://", "ftp://"}
Tokens == Schemes \cup {"a", ".", " "}

RECURSIVE StringsUpTo(_)
StringsUpTo(n) ==
    IF n = 0 THEN {<<>>}
    ELSE LET shorter == StringsUpTo(n - 1)
         IN shorter \cup {Append(s, t) : s \in {x \in shorter : Len(x) = n - 1},
                                         t \in Tokens}

Contains(s, t) == \E k \in 1..Len(s) : s[k] = t
StartsWith(s, t) == Len(s) > 0 /\ s[1] = t
EndsWith(s, t) == Len(s) > 0 /\ s[Len(s)] = t
StartsWithAny(s, ts) == \E t \in ts : StartsWith(s, t)

RECURSIVE LStrip(_)
LStrip(s) == IF StartsWith(s, " ") THEN LStrip(Tail(s)) ELSE s
RECURSIVE RStrip(_)
RStrip(s) == IF EndsWith(s, " ") THEN RStrip(SubSeq(s, 1, Len(s) - 1)) ELSE s
\* str.strip() and String.prototype.trim() on the whitespace of the alphabet
Strip(s) == RStrip(LStrip(s))

(***************************************************************************)
(* The URL-vs-query classifiers.                                           *)
(***************************************************************************)
\* is_url with the scheme test moved in front of the space test
is_url_schemeFirst(text) ==
    IF StartsWithAny(text, Schemes) THEN TRUE
    ELSE IF Contains(text, " ") THEN FALSE
    ELSE Contains(text, ".") /\ ~StartsWith(text, ".") /\ ~EndsWith(text, ".")

is_url(text) ==
    IF Contains(text, " ") THEN FALSE
    ELSE IF Contains(text, ".") /\ ~StartsWith(text, ".") /\ ~EndsWith(text, ".")
         THEN TRUE
    ELSE IF StartsWithAny(text, Schemes) THEN TRUE
    ELSE FALSE

\* const isUrl = hasScheme || (hasDot && !hasSpace) of the home page's script
performSearch_isUrl(text) ==
    LET hasSpace == Contains(text, " ")
        hasDot == Contains(text, ".") /\ ~StartsWith(text, ".")
                  /\ ~EndsWith(text, ".")
        hasScheme == StartsWithAny(text, Schemes)
    IN hasScheme \/ (hasDot /\ ~hasSpace)

SearchEngines == {"Google", "DuckDuckGo", "Bing"}
\* self.search_engines[engine] up to the {} of the template, and searchUrls[engine]
search_engines(engine) ==
    CASE engine = "Google" -> <<"https://", "www", ".", "google", ".", "com/search?q=">>
      [] engine = "DuckDuckGo" -> <<"https://", "duckduckgo", ".", "com/?q=">>
      [] engine = "Bing" -> <<"https://", "www", ".", "bing", ".", "com/search?q=">>

\* encodeURIComponent, token by token
EncodeToken(t) ==
    CASE t = " " -> "%20"
      [] t = "&" -> "%26"
      [] t = "http://" -> "http%3A%2F%2F"
      [] t = "https://" -> "https%3A%2F%2F"
      [] t = "file://" -> "file%3A%2F%2F"
      [] t = "ftp://" -> "ftp%3A%2F%2F"
      [] OTHER -> t
encodeURIComponent(s) == [k \in 1..Len(s) |-> EncodeToken(s[k])]

\* The string navigate_to_url hands to QUrl for the stripped, non-empty text.
navigate_to_url_target(text, engine) ==
    IF is_url(text)
    THEN IF ~StartsWithAny(text, {"http://", "https://"})
         THEN <<"https://">> \o text
         ELSE text
    ELSE search_engines(engine) \o text

\* The string performSearch assigns to window.location.href.
performSearch_target(text, engine) ==
    IF performSearch_isUrl(text)
    THEN IF StartsWithAny(text, Schemes) THEN text ELSE <<"https://">> \o text
    ELSE search_engines(engine) \o encodeURIComponent(text)

NotClassified == [by |-> "none", text |-> <<>>, kind |-> "none", target |-> <<>>]

(***************************************************************************)
(* URLs, page titles and the generated home page.                          *)
(***************************************************************************)
\* A URL is its text together with the document a data: URL carries.
NoDoc == [cards |-> <<>>, background |-> ""]
StrUrl(str) == [str |-> str, doc |-> NoDoc]
AboutBlank == StrUrl(<<"about:blank">>)
\* "data:text/html;charset=utf-8," + urllib.parse.quote(html): the quoted
\* html always holds percent-encoded spaces
DataUrl(doc) == [str |-> <<"data:text/html", "%20">>, doc |-> doc]
IsDataUrl(url) == StartsWith(url.str, "data:text/html")
\* QUrl(string).toString(): the default PrettyDecoded form shows "%20" as a space
QUrlToken(t) == IF t = "%20" THEN " " ELSE t
QUrl(s) == [str |-> [k \in 1..Len(s.str) |-> QUrlToken(s.str[k])], doc |-> s.doc]
\* the request form of a QUrl (toEncoded): its tolerant parser percent-encodes
\* a space and leaves the delimiters of the query ("&") as they are
QUrl_toEncoded(url) ==
    [k \in 1..Len(url.str) |-> IF url.str[k] = " " THEN "%20" ELSE url.str[k]]

HomeTitle == <<"v", "i", "c", "e", "b", "r", "o", "w", "s", "e", "r">>
LongTitle == [k \in 1..31 |-> IF k = 2 THEN "<" ELSE "x"]
\* browser.page().title() once the page at url has loaded
IsSearchUrl(url) == Contains(url.str, "com/search?q=") \/ Contains(url.str, "com/?q=")
PageTitle(url) ==
    IF IsDataUrl(url) THEN HomeTitle
    ELSE IF url = AboutBlank THEN url.str
    ELSE IF IsSearchUrl(url) THEN LongTitle
    ELSE <<"A", "&", "B">>
\* browser.iconUrl().toString() of the page at url
PageIcon(url) == IF IsSearchUrl(url) \/ url = AboutBlank THEN "" ELSE "favicon.ico"

EscapeChar(c) ==
    CASE c = "&" -> "&amp;"
      [] c = "<" -> "&lt;"
      [] c = ">" -> "&gt;"
      [] c = "\"" -> "&quot;"
      [] OTHER -> c
Ellipsis == <<".", ".", ".">>

FavoriteCard(fav) ==
    LET t0 == IF fav.title # <<>> THEN fav.title ELSE fav.url.str
        t1 == IF Len(t0) > 30 THEN SubSeq(t0, 1, 27) \o Ellipsis ELSE t0
    IN [filled |-> TRUE, href |-> fav.url.str,
        title |-> [k \in 1..Len(t1) |-> EscapeChar(t1[k])],
        favicon |-> fav.favicon]
PlaceholderCard == [filled |-> FALSE, href |-> <<>>, title |-> <<>>, favicon |-> ""]

\* the files a user can pick as background; QImage(path).isNull() holds for
\* a file that is not an image
BackgroundFiles == {"photo.png", "notes.png"}
\* a QImage that loads every file
QImage_isNull_never(path) == FALSE

QImage_isNull(path) == path = "notes.png"
\* custom_bg_style: the image embedded in the page, "" for the default
custom_bg_style(background) ==
    IF background # "None" /\ ~QImage_isNull(background) THEN background ELSE ""

\* create_vice_city_homepage without the [:8] slice
create_vice_city_homepage_all(favs, background) ==
    DataUrl([cards |->
                IF Len(favs) > 0
                THEN [k \in 1..Len(favs) |-> FavoriteCard(favs[k])]
                ELSE [k \in 1..5 |-> PlaceholderCard],
             background |-> custom_bg_style(background)])

\* create_vice_city_homepage for the list get_favorites returned and
\* self.background_image
create_vice_city_homepage(favs, background) ==
    DataUrl([cards |->
                IF Len(favs) > 0
                THEN [k \in 1..(IF Len(favs) < 8 THEN Len(favs) ELSE 8) |->
                         FavoriteCard(favs[k])]
                ELSE [k \in 1..5 |-> PlaceholderCard],
             background |-> custom_bg_style(background)])

(***************************************************************************)
(* The persistence store (tables history and favorites).                   *)
(***************************************************************************)
RemoveAt(seq, k) == SubSeq(seq, 1, k - 1) \o SubSeq(seq, k + 1, Len(seq))

\* INSERT INTO favorites without the UNIQUE constraint on url
add_favorite_noUnique(rows, seq, url, title, favicon, ts) ==
    [ok |-> TRUE,
     rows |-> Append(rows, [id |-> seq + 1, url |-> url, title |-> title,
                            favicon |-> favicon, timestamp |-> ts]),
     seq |-> seq + 1]

\* INSERT OR REPLACE INTO favorites: a stored url is overwritten
add_favorite_replace(rows, seq, url, title, favicon, ts) ==
    LET Keep(r) == r.url # url
    IN [ok |-> TRUE,
        rows |-> Append(SelectSeq(rows, Keep),
                        [id |-> seq + 1, url |-> url, title |-> title,
                         favicon |-> favicon, timestamp |-> ts]),
        seq |-> seq + 1]

\* add_favorite: the INSERT raises IntegrityError when url is already stored
add_favorite(rows, seq, url, title, favicon, ts) ==
    IF \E k \in 1..Len(rows) : rows[k].url = url
    THEN [ok |-> FALSE, rows |-> rows, seq |-> seq]
    ELSE [ok |-> TRUE,
          rows |-> Append(rows, [id |-> seq + 1, url |-> url, title |-> title,
                                 favicon |-> favicon, timestamp |-> ts]),
          seq |-> seq + 1]

remove_favorite(rows, url) ==
    LET Keep(r) == r.url # url IN SelectSeq(rows, Keep)

is_favorite(rows, url) ==
    Cardinality({k \in 1..Len(rows) : rows[k].url = url}) > 0

\* every way to list the rows at the positions in S by timestamp, newest first
RECURSIVE OrderedByTimestamp(_, _)
OrderedByTimestamp(rows, S) ==
    IF S = {}
    THEN {<<>>}
    ELSE UNION {{<<rows[k]>> \o rest : rest \in OrderedByTimestamp(rows, S \ {k})} :
                   k \in {a \in S : \A b \in S : rows[a].timestamp >= rows[b].timestamp}}

\* get_favorites: ORDER BY timestamp DESC fixes the order of rows only up to
\* rows of equal timestamp; every list the query may return.
get_favorites(rows) == OrderedByTimestamp(rows, 1..Len(rows))

\* the favorites table a previous run of the browser left in the database: n
\* rows; their timestamps are all different (pattern 2) or equal in pairs
StoredFavorites(n, pattern) ==
    [k \in 1..n |->
        [id |-> k, url |-> StrUrl(<<"https://", ToString(k)>>),
         title |-> <<ToString(k)>>, favicon |-> "favicon.ico",
         timestamp |-> IF pattern = 2 THEN k ELSE (k + pattern) \div 2]]

\* save_to_history for a browser showing url with page title title
save_to_history(rows, seq, url, title, ts) ==
    IF url.str # <<>> /\ url.str \notin {<<"about:blank">>, <<>>}
    THEN [rows |-> Append(rows, [id |-> seq + 1, url |-> url, title |-> title,
                                 timestamp |-> ts]),
          seq |-> seq + 1]
    ELSE [rows |-> rows, seq |-> seq]

Day == 2     \* timedelta(days=1), in units of 12 hours
Week == 14   \* timedelta(days=7), in units of 12 hours

\* the DELETE of clear_history_dialog: timestamps were stored by
\* CURRENT_TIMESTAMP (UTC), the cutoff comes from datetime.now() (local time)
clear_history(rows, clear_type, utcNow, offset) ==
    LET localNow == utcNow + offset
        KeepRecent(r) == ~(r.timestamp >= localNow - Day)
        KeepWeek(r) == ~(r.timestamp >= localNow - Week)
    IN CASE clear_type = "all" -> <<>>
         [] clear_type = "recent" -> SelectSeq(rows, KeepRecent)
         [] clear_type = "week" -> SelectSeq(rows, KeepWeek)

(***************************************************************************)
(* Zoom factors.  QWebEngineView keeps the zoom factor as an IEEE-754      *)
(* double and the handlers compute with Python floats, which are the same  *)
(* doubles.  The double z is held as the pair (zoom, err) with             *)
(*     z = zoom / 100 + err / (25 * 2^55):                                 *)
(* zoom is the decimal value in hundredths and err the distance of the     *)
(* double from it.  Every double between 1/8 and 4 is a multiple of        *)
(* 2^-55, so err is an integer, and 2^53 of its units make one hundredth.  *)
(* setZoomFactor followed by zoomFactor gives back the double that was set.*)
(***************************************************************************)
\* 2^53 modulo m
Pow2_53_mod(m) ==
    CASE m = 50 -> 42
      [] m = 100 -> 92
      [] m \in {200, 400, 800} -> 192

\* the spacing of the doubles around zoom/100 + x units, in units
DoubleGrid(n, x) ==
    IF n < 25 \/ (n = 25 /\ x < 0) THEN 25
    ELSE IF n < 50 \/ (n = 50 /\ x < 0) THEN 50
    ELSE IF n < 100 \/ (n = 100 /\ x < 0) THEN 100
    ELSE IF n < 200 \/ (n = 200 /\ x < 0) THEN 200
    ELSE 400

\* the double nearest to n/100 + x units (round to nearest, ties to even)
RoundToDouble(n, x) ==
    LET g == DoubleGrid(n, x)
        R == (n * Pow2_53_mod(2 * g) + x) % (2 * g)
        r == R % g
    IN [zoom |-> n,
        err |-> IF 2 * r < g \/ (2 * r = g /\ R < g) THEN x - r ELSE x + g - r]

\* the double a decimal literal n/100 denotes, and the quotient n / 100.0
DoubleLiteral(n) == RoundToDouble(n, 0)

DoubleLE(a, b) == a.zoom < b.zoom \/ (a.zoom = b.zoom /\ a.err <= b.err)
DoubleMin(a, b) == IF DoubleLE(a, b) THEN a ELSE b
DoubleMax(a, b) == IF DoubleLE(a, b) THEN b ELSE a

\* the zoom factor of a web view
zoomFactor(browser) == [zoom |-> browser.zoom, err |-> browser.err]

\* zoom_in without the cap
zoom_in_noCap(z) == RoundToDouble(z.zoom + 10, z.err + 5)

\* min(current_zoom + 0.1, 3.0): the literal 0.1 is 10 hundredths and 5 units
zoom_in(z) == DoubleMin(RoundToDouble(z.zoom + 10, z.err + 5), DoubleLiteral(300))

\* max(current_zoom - 0.1, 0.25)
zoom_out(z) == DoubleMax(RoundToDouble(z.zoom - 10, z.err - 5), DoubleLiteral(25))

\* int(browser.zoomFactor() * 100): the product is n + err * 2^-53, rounded
\* to a double and cut to an integer
ZoomPercent(z) ==
    LET G0 == IF z.zoom < 32 THEN 32
              ELSE IF z.zoom < 64 THEN 64
              ELSE IF z.zoom < 128 THEN 128
              ELSE IF z.zoom < 256 THEN 256
              ELSE 512
        G == IF z.zoom \in {32, 64, 128, 256} /\ z.err < 0 THEN G0 \div 2 ELSE G0
    IN IF 2 * z.err < 0 - G THEN z.zoom - 1 ELSE z.zoom

(***************************************************************************)
(* The frameless main window: edge detection and manual resize.  Lengths   *)
(* are pixels; points are global (screen) positions unless called local.   *)
(***************************************************************************)
resize_margin == 10
\* self.minimumWidth() and self.minimumHeight(): Qt derives them from the
\* layout of the window; the dialogs of the browser set 800 x 500
minimumWidth == 800
minimumHeight == 500
TitleBarHeight == 40
TitleBarMargin == 8
NoPoint == [x |-> 0 - 1, y |-> 0 - 1]
NoGeometry == [x |-> 0, y |-> 0, width |-> 0, height |-> 0]

\* the window after __init__; systemResize tells whether the window handle
\* offers startSystemResize and startSystemMove
NewWindow(systemResize) ==
    [geometry |-> [x |-> 100, y |-> 100, width |-> 1400, height |-> 900],
     maximized |-> FALSE,
     normal_geometry |-> NoGeometry,
     resizing |-> FALSE,
     resize_direction |-> "none",
     resize_start_pos |-> NoPoint,
     resize_start_geometry |-> NoGeometry,
     drag_position |-> NoPoint,
     systemResize |-> systemResize]

\* the mouse when the window opens: over the page, no button down
NewPointer == [pos |-> [x |-> 900, y |-> 600], buttons |-> {}, grab |-> "none",
               presses |-> 0]

\* mapFromGlobal
Local(pos, geo) == [x |-> pos.x - geo.x, y |-> pos.y - geo.y]

\* get_resize_direction with strict comparisons
get_resize_direction_strict(pos, width, height) ==
    LET on_left == pos.x < resize_margin
        on_right == pos.x > width - resize_margin
        on_top == pos.y < resize_margin
        on_bottom == pos.y > height - resize_margin
    IN IF on_top /\ on_left THEN "top_left"
       ELSE IF on_top /\ on_right THEN "top_right"
       ELSE IF on_bottom /\ on_left THEN "bottom_left"
       ELSE IF on_bottom /\ on_right THEN "bottom_right"
       ELSE IF on_left THEN "left"
       ELSE IF on_right THEN "right"
       ELSE IF on_top THEN "top"
       ELSE IF on_bottom THEN "bottom"
       ELSE "none"

get_resize_direction(pos, width, height) ==
    LET on_left == pos.x <= resize_margin
        on_right == pos.x >= width - resize_margin
        on_top == pos.y <= resize_margin
        on_bottom == pos.y >= height - resize_margin
    IN IF on_top /\ on_left THEN "top_left"
       ELSE IF on_top /\ on_right THEN "top_right"
       ELSE IF on_bottom /\ on_left THEN "bottom_left"
       ELSE IF on_bottom /\ on_right THEN "bottom_right"
       ELSE IF on_left THEN "left"
       ELSE IF on_right THEN "right"
       ELSE IF on_top THEN "top"
       ELSE IF on_bottom THEN "bottom"
       ELSE "none"

\* FramelessDialog.get_resize_direction: the same tests with the margin of
\* the dialogs
FramelessDialog_resize_margin == 8
FramelessDialog_get_resize_direction(pos, width, height) ==
    LET on_left == pos.x <= FramelessDialog_resize_margin
        on_right == pos.x >= width - FramelessDialog_resize_margin
        on_top == pos.y <= FramelessDialog_resize_margin
        on_bottom == pos.y >= height - FramelessDialog_resize_margin
    IN IF on_top /\ on_left THEN "top_left"
       ELSE IF on_top /\ on_right THEN "top_right"
       ELSE IF on_bottom /\ on_left THEN "bottom_left"
       ELSE IF on_bottom /\ on_right THEN "bottom_right"
       ELSE IF on_left THEN "left"
       ELSE IF on_right THEN "right"
       ELSE IF on_top THEN "top"
       ELSE IF on_bottom THEN "bottom"
       ELSE "none"

\* 'left' in direction, and so on
InDirection(edge, direction) ==
    CASE edge = "left" -> direction \in {"left", "top_left", "bottom_left"}
      [] edge = "right" -> direction \in {"right", "top_right", "bottom_right"}
      [] edge = "top" -> direction \in {"top", "top_left", "top_right"}
      [] edge = "bottom" -> direction \in {"bottom", "bottom_left", "bottom_right"}

Max(a, b) == IF a >= b THEN a ELSE b

\* mouseMoveEvent with the shift of the origin left out
resize_geometry_noShift(direction, geo, dx, dy) ==
    [x |-> geo.x,
     y |-> geo.y,
     width |-> IF InDirection("left", direction) /\ geo.width - dx >= minimumWidth
               THEN geo.width - dx
               ELSE IF InDirection("right", direction)
                    THEN Max(minimumWidth, geo.width + dx)
                    ELSE geo.width,
     height |-> IF InDirection("top", direction) /\ geo.height - dy >= minimumHeight
                THEN geo.height - dy
                ELSE IF InDirection("bottom", direction)
                     THEN Max(minimumHeight, geo.height + dy)
                     ELSE geo.height]

\* the geometry mouseMoveEvent computes while resizing, from the geometry
\* at press time and the pointer delta
resize_geometry(direction, geo, dx, dy) ==
    LET leftFits == InDirection("left", direction) /\ geo.width - dx >= minimumWidth
        topFits == InDirection("top", direction) /\ geo.height - dy >= minimumHeight
        x1 == IF leftFits THEN geo.x + dx ELSE geo.x
        w1 == IF leftFits THEN geo.width - dx ELSE geo.width
        w2 == IF InDirection("right", direction)
              THEN Max(minimumWidth, w1 + dx) ELSE w1
        y1 == IF topFits THEN geo.y + dy ELSE geo.y
        h1 == IF topFits THEN geo.height - dy ELSE geo.height
        h2 == IF InDirection("bottom", direction)
              THEN Max(minimumHeight, h1 + dy) ELSE h1
    IN [x |-> x1, y |-> y1, width |-> w2, height |-> h2]

\* ViceCityBrowser.mousePressEvent
mousePressEvent(w, pos, button) ==
    IF button = "left" /\ ~w.maximized
    THEN LET direction == get_resize_direction(Local(pos, w.geometry),
                                               w.geometry.width, w.geometry.height)
         IN IF direction # "none" /\ ~w.systemResize
            THEN [w EXCEPT !.resize_direction = direction,
                           !.resizing = TRUE,
                           !.resize_start_pos = pos,
                           !.resize_start_geometry = w.geometry]
            ELSE [w EXCEPT !.resize_direction = direction]
    ELSE w

\* ViceCityBrowser.mouseMoveEvent
mouseMoveEvent(w, pos) ==
    IF w.resizing /\ w.resize_direction # "none"
    THEN [w EXCEPT !.geometry =
             resize_geometry(w.resize_direction, w.resize_start_geometry,
                             pos.x - w.resize_start_pos.x,
                             pos.y - w.resize_start_pos.y)]
    ELSE w

\* ViceCityBrowser.mouseReleaseEvent
mouseReleaseEvent(w, button) ==
    IF button = "left"
    THEN [w EXCEPT !.resizing = FALSE, !.resize_direction = "none"]
    ELSE w

\* ViceCityBrowser.eventFilter for a mouse event of a child widget: the
\* event is passed to the handler of the window when the pointer is near an
\* edge and the window is not maximized; otherwise the child keeps it
eventFilter_forwards(w, pos) ==
    /\ get_resize_direction(Local(pos, w.geometry),
                            w.geometry.width, w.geometry.height) # "none"
    /\ ~w.maximized

\* TitleBar.is_on_resize_edge; the title bar spans the top of the window
is_on_resize_edge(pos, width) ==
    pos.x <= TitleBarMargin \/ pos.x >= width - TitleBarMargin \/ pos.y <= TitleBarMargin

\* TitleBar.mousePressEvent; a press it ignores goes on to the window
TitleBar_mousePressEvent(w, pos, button) ==
    IF button = "left"
    THEN IF is_on_resize_edge(Local(pos, w.geometry), w.geometry.width)
         THEN mousePressEvent(w, pos, button)
         ELSE IF ~w.maximized /\ w.systemResize
              THEN w
              ELSE [w EXCEPT !.drag_position =
                        [x |-> pos.x - w.geometry.x, y |-> pos.y - w.geometry.y]]
    ELSE w

\* TitleBar.mouseMoveEvent; a move it does not use goes on to the window
TitleBar_mouseMoveEvent(w, pos, buttons) ==
    IF buttons = {"left"} /\ w.drag_position # NoPoint
    THEN IF ~w.maximized
         THEN [w EXCEPT !.geometry.x = pos.x - w.drag_position.x,
                        !.geometry.y = pos.y - w.drag_position.y]
         ELSE w
    ELSE mouseMoveEvent(w, pos)

\* TitleBar.mouseReleaseEvent: the event is accepted and stops here
TitleBar_mouseReleaseEvent(w) == [w EXCEPT !.drag_position = NoPoint]

(***************************************************************************)
(* The window: tabs, web views and the widgets that mirror them.           *)
(***************************************************************************)
NewTabLabel == <<"N", "e", "w", " ", "T", "a", "b">>
NoCall == [op |-> "none", url |-> StrUrl(<<>>), title |-> <<>>, favicon |-> "",
           ok |-> FALSE, i |-> 0, browser |-> 0]

current_browser == tabs[currentIndex]

\* the text update_urlbar puts into the address bar for qurl
UrlBarText(qurl) == IF IsDataUrl(qurl) THEN <<>> ELSE qurl.str

\* the icon update_favorite_icon shows for a current browser at url
FavoriteIcon(url, favs) ==
    IF url.str # <<>> /\ url.str \notin {<<"about:blank">>, <<>>} /\ ~IsDataUrl(url)
    THEN IF is_favorite(favs, url) THEN "star" ELSE "add_star"
    ELSE "add_star"

\* the label update_tab_title computes from the page title
TabLabel(title) == IF Len(title) > 20 THEN SubSeq(title, 1, 20) \o Ellipsis ELSE title

\* the zoom add_new_tab gives the new web view: 0.9 when
\* qurl.toString() == self.home_url, else 1.0
NewTabZoom(qurl, home) == IF qurl = home THEN 90 ELSE 100

Quiet ==
    /\ reply' = "none"
    /\ lastCall' = NoCall
    /\ classified' = NotClassified

\* browser.setUrl(qurl) on the current browser, or a navigation of the page
\* in browser b: the url changes and, when it differs from the old one,
\* urlChanged runs update_urlbar(qurl, b).
\* update_urlbar without its test of the browser
UrlChanges_anyBrowser(b, qurl) ==
    /\ browsers' = [browsers EXCEPT ![b].url = qurl]
    /\ url_bar' = UrlBarText(qurl)
    /\ favorite_btn' = FavoriteIcon(qurl, favorites)

UrlChanges(b, qurl) ==
    /\ browsers' = [browsers EXCEPT ![b].url = qurl]
    /\ IF b = current_browser /\ qurl # browsers[b].url
       THEN /\ url_bar' = UrlBarText(qurl)
            /\ favorite_btn' = FavoriteIcon(qurl, favorites)
       ELSE UNCHANGED <<url_bar, favorite_btn>>

\* the window after __init__ on a machine whose local time is offset ahead
\* of UTC, with a database whose favorites table holds rows
InitStored(offset, string, rows) ==
    /\ favorites = rows
    /\ favoritesSeq = Len(rows)
    /\ history = <<>>
    /\ historySeq = 0
    /\ background_image = "None"
    /\ \E favs \in get_favorites(rows) :
           home_url = create_vice_city_homepage(favs, background_image)
    /\ current_search_engine = "Google"
    /\ browsers = <<[url |-> QUrl(home_url),
                     zoom |-> NewTabZoom(QUrl(home_url), home_url),
                     err |-> DoubleLiteral(NewTabZoom(QUrl(home_url), home_url)).err,
                     i |-> 1]>>
    /\ tabs = <<1>>
    /\ tabText = <<NewTabLabel>>
    /\ currentIndex = 1
    /\ url_bar = <<>>
    /\ input = string
    /\ favorite_btn = "add_star"
    /\ zoom_reset_btn = ZoomPercent(zoomFactor(browsers[1]))
    /\ now = Len(rows)
    /\ utcOffset = offset
    /\ reply = "none"
    /\ lastCall = NoCall
    /\ classified = NotClassified

\* the same with a fresh database
InitBrowser(offset, string) == InitStored(offset, string, <<>>)

InitAt(offset, string) ==
    /\ InitBrowser(offset, string)
    /\ window = NewWindow(TRUE)
    /\ pointer = NewPointer

Init == InitAt(0, <<>>)

(***************************************************************************)
(* Tab handlers.                                                           *)
(***************************************************************************)
\* add_new_tab(qurl): the "+" button (home page), or OPEN in the history
\* dialog or in the starred-pages dialog (the url of the row).
AddNewTab(string) ==
    LET qurl == QUrl(string)
        b == Len(browsers) + 1
        i == Len(tabs) + 1
        zoom == NewTabZoom(qurl, home_url)
    IN /\ Len(tabs) < MaxTabs
       /\ Len(browsers) < MaxBrowsers
       /\ browsers' = Append(browsers, [url |-> qurl, zoom |-> zoom,
                                         err |-> DoubleLiteral(zoom).err, i |-> i])
       /\ tabs' = Append(tabs, b)
       /\ tabText' = Append(tabText, NewTabLabel)
       /\ currentIndex' = i
       /\ url_bar' = UrlBarText(qurl)
       /\ favorite_btn' = FavoriteIcon(qurl, favorites)
       /\ zoom_reset_btn' = ZoomPercent(DoubleLiteral(zoom))
       /\ reply' = "none"
       /\ lastCall' = [NoCall EXCEPT !.op = "add_new_tab", !.url = string]
       /\ classified' = NotClassified
       /\ UNCHANGED <<home_url, storeVars, now, utcOffset, current_search_engine,
                       input, geoVars, background_image>>

OpenTab ==
    \E string \in {home_url} \cup {history[k].url : k \in 1..Len(history)}
                  \cup {favorites[k].url : k \in 1..Len(favorites)} :
        AddNewTab(string)

\* close_tab(i) with removeTab always taken, also for the only tab
close_tab_removeLast(i) ==
    LET newTabs == RemoveAt(tabs, i)
        newIndex == IF i < currentIndex THEN currentIndex - 1
                    ELSE IF i = currentIndex
                         THEN (IF i <= Len(newTabs) THEN i ELSE Len(newTabs))
                         ELSE currentIndex
    IN /\ tabs' = newTabs
       /\ tabText' = RemoveAt(tabText, i)
       /\ currentIndex' = newIndex
       /\ UNCHANGED <<browsers, url_bar, zoom_reset_btn, favorite_btn>>

\* close_tab(i) that sends the only tab home and leaves its zoom alone
close_tab_keepZoom(i) ==
    IF Len(tabs) < 2
    THEN /\ browsers' = [browsers EXCEPT ![current_browser].url = QUrl(home_url)]
         /\ IF QUrl(home_url) # browsers[current_browser].url
            THEN /\ url_bar' = UrlBarText(QUrl(home_url))
                 /\ favorite_btn' = FavoriteIcon(QUrl(home_url), favorites)
            ELSE UNCHANGED <<url_bar, favorite_btn>>
         /\ UNCHANGED <<tabs, tabText, currentIndex, zoom_reset_btn>>
    ELSE close_tab_removeLast(i)

\* close_tab(i): the only tab is sent home at zoom 0.9; otherwise removeTab(i),
\* and a change of the current index runs on_tab_changed.
close_tab(i) ==
    IF Len(tabs) < 2
    THEN /\ browsers' = [browsers EXCEPT ![current_browser].url = QUrl(home_url),
                                         ![current_browser].zoom = 90,
                                         ![current_browser].err = DoubleLiteral(90).err]
         /\ IF QUrl(home_url) # browsers[current_browser].url
            THEN /\ url_bar' = UrlBarText(QUrl(home_url))
                 /\ favorite_btn' = FavoriteIcon(QUrl(home_url), favorites)
            ELSE UNCHANGED <<url_bar, favorite_btn>>
         /\ UNCHANGED <<tabs, tabText, currentIndex, zoom_reset_btn>>
    ELSE LET newTabs == RemoveAt(tabs, i)
             newIndex == IF i < currentIndex THEN currentIndex - 1
                         ELSE IF i = currentIndex
                              THEN (IF i <= Len(newTabs) THEN i ELSE Len(newTabs))
                              ELSE currentIndex
             shown == browsers[newTabs[newIndex]]
         IN /\ tabs' = newTabs
            /\ tabText' = RemoveAt(tabText, i)
            /\ currentIndex' = newIndex
            /\ UNCHANGED browsers
            /\ IF i <= currentIndex
               THEN /\ url_bar' = UrlBarText(shown.url)
                    /\ zoom_reset_btn' = ZoomPercent(zoomFactor(shown))
                    /\ favorite_btn' = FavoriteIcon(shown.url, favorites)
               ELSE UNCHANGED <<url_bar, zoom_reset_btn, favorite_btn>>

CloseTab ==
    \E i \in 1..Len(tabs) :
        /\ close_tab(i)
        /\ reply' = "none"
        /\ classified' = NotClassified
        /\ lastCall' = [op |-> "close_tab", url |-> browsers[tabs[i]].url,
                        title |-> <<>>, favicon |-> "", ok |-> Len(tabs) < 2, i |-> i,
                        browser |-> tabs[i]]
        /\ UNCHANGED <<home_url, storeVars, now, utcOffset, current_search_engine,
                       input, geoVars, background_image>>

\* the user selects another tab: currentChanged runs on_tab_changed
ActivateTab ==
    \E i \in 1..Len(tabs) :
        /\ i # currentIndex
        /\ currentIndex' = i
        /\ url_bar' = UrlBarText(browsers[tabs[i]].url)
        /\ zoom_reset_btn' = ZoomPercent(zoomFactor(browsers[tabs[i]]))
        /\ favorite_btn' = FavoriteIcon(browsers[tabs[i]].url, favorites)
        /\ Quiet
        /\ UNCHANGED <<browsers, tabs, tabText, home_url, storeVars, now, utcOffset,
                       current_search_engine,
                       input, geoVars, background_image>>

\* navigate_home
NavigateHome ==
    /\ browsers' = [browsers EXCEPT ![current_browser].url = QUrl(home_url),
                                    ![current_browser].zoom = 90,
                                    ![current_browser].err = DoubleLiteral(90).err]
    /\ IF QUrl(home_url) # browsers[current_browser].url
       THEN /\ url_bar' = UrlBarText(QUrl(home_url))
            /\ favorite_btn' = FavoriteIcon(QUrl(home_url), favorites)
       ELSE UNCHANGED <<url_bar, favorite_btn>>
    /\ zoom_reset_btn' = ZoomPercent(DoubleLiteral(90))
    /\ Quiet
    /\ UNCHANGED <<tabs, tabText, currentIndex, home_url, storeVars, now, utcOffset,
                   current_search_engine,
                       input, geoVars, background_image>>

\* browser.setZoomFactor(z) on the current browser, then update_zoom_display
SetZoomAndDisplay(z) ==
    /\ browsers' = [browsers EXCEPT ![current_browser].zoom = z.zoom,
                                    ![current_browser].err = z.err]
    /\ zoom_reset_btn' = ZoomPercent(z)
    /\ reply' = "none"
    /\ classified' = NotClassified
    /\ UNCHANGED <<tabs, tabText, currentIndex, home_url, url_bar, favorite_btn,
                   storeVars, now, utcOffset, current_search_engine, input, geoVars, background_image>>

\* zoom_in; lastCall.i counts the zoom_in calls that followed a zoom_reset
\* with no other handler between, up to MaxZoomIns of them
ZoomIn ==
    /\ SetZoomAndDisplay(zoom_in(zoomFactor(browsers[current_browser])))
    /\ lastCall' = [NoCall EXCEPT
                       !.op = "zoom_in",
                       !.i = IF lastCall.op = "zoom_reset" THEN 1
                             ELSE IF /\ lastCall.op = "zoom_in"
                                     /\ lastCall.i > 0
                                     /\ lastCall.i < MaxZoomIns
                                  THEN lastCall.i + 1
                                  ELSE 0]

\* zoom_out
ZoomOut ==
    /\ SetZoomAndDisplay(zoom_out(zoomFactor(browsers[current_browser])))
    /\ lastCall' = [NoCall EXCEPT !.op = "zoom_out"]

\* zoom_reset
ZoomReset ==
    /\ SetZoomAndDisplay(DoubleLiteral(100))
    /\ lastCall' = [NoCall EXCEPT !.op = "zoom_reset"]

\* the positions of the layout-scale slider (range 75..150) that are applied
LayoutScales == {75, 100, 150}

\* apply_browser_settings: the current browser gets zoom layout_scale / 100.0;
\* the zoom label is not refreshed
ApplyBrowserSettings ==
    \E layout_scale \in LayoutScales :
        /\ browsers' = [browsers EXCEPT
                            ![current_browser].zoom = layout_scale,
                            ![current_browser].err = DoubleLiteral(layout_scale).err]
        /\ reply' = "none"
        /\ classified' = NotClassified
        /\ lastCall' = [NoCall EXCEPT !.op = "apply_browser_settings",
                                      !.i = layout_scale]
        /\ UNCHANGED <<tabs, tabText, currentIndex, home_url, url_bar, favorite_btn,
                       zoom_reset_btn, storeVars, now, utcOffset,
                       current_search_engine, input, geoVars, background_image>>

(***************************************************************************)
(* Pointer events.  Qt sends a press to the widget under the pointer and   *)
(* every later event to that widget until all buttons are up.  The widget  *)
(* is the title bar, a child that carries the event filter of the window   *)
(* (central widget, tab widget, web view), or the window itself.           *)
(***************************************************************************)
\* where the pointer goes: on and off the edges of the window as it opens,
\* and one point a little inside its top left corner
PointerXs == {100, 900, 1490}
PointerYs == {100, 120, 600, 990}
InsideCorner == [x |-> 150, y |-> 120]
\* the screen the window is maximized on
ScreenGeometry == [x |-> 0, y |-> 0, width |-> 1500, height |-> 1000]

\* a point of the title bar of the maximized window
MaximizedTitleBar == [x |-> 900, y |-> 20]

Positions ==
    {[x |-> px, y |-> py] : px \in PointerXs, py \in PointerYs} \cup {InsideCorner}
        \cup (IF window.maximized THEN {MaximizedTitleBar} ELSE {})
Buttons == {"left", "right"}

InWindow(pos) ==
    LET p == Local(pos, window.geometry)
    IN /\ p.x >= 0 /\ p.x < window.geometry.width
       /\ p.y >= 0 /\ p.y < window.geometry.height

\* the widgets an event at pos can go to
Targets(pos) ==
    IF pointer.grab # "none" THEN {pointer.grab}
    ELSE IF ~InWindow(pos) THEN {}
    ELSE IF Local(pos, window.geometry).y < TitleBarHeight THEN {"title_bar"}
    ELSE {"child", "window"}

PointerQuiet ==
    /\ reply' = "none"
    /\ classified' = NotClassified
    /\ UNCHANGED <<uiVars, storeVars, now, utcOffset, current_search_engine, input,
                   background_image>>

PointerDown ==
    \E pos \in Positions, button \in Buttons \ pointer.buttons :
      \E target \in Targets(pos) :
        /\ window' = CASE target = "title_bar" ->
                              TitleBar_mousePressEvent(window, pos, button)
                        [] target = "child" ->
                              IF eventFilter_forwards(window, pos)
                              THEN mousePressEvent(window, pos, button)
                              ELSE window
                        [] target = "window" -> mousePressEvent(window, pos, button)
        /\ pointer.presses < MaxPresses
        /\ pointer' = [pos |-> pos, buttons |-> pointer.buttons \cup {button},
                       grab |-> target, presses |-> pointer.presses + 1]
        /\ lastCall' = [NoCall EXCEPT !.op = "pointer_down"]
        /\ PointerQuiet

PointerMove ==
    \E pos \in Positions :
      \E target \in Targets(pos) :
        /\ pos # pointer.pos
        /\ window' = CASE target = "title_bar" ->
                              TitleBar_mouseMoveEvent(window, pos, pointer.buttons)
                        [] target = "child" ->
                              IF eventFilter_forwards(window, pos)
                              THEN mouseMoveEvent(window, pos)
                              ELSE window
                        [] target = "window" -> mouseMoveEvent(window, pos)
        /\ pointer' = [pointer EXCEPT !.pos = pos]
        /\ lastCall' = [NoCall EXCEPT
                           !.op = "pointer_move",
                           !.ok = /\ window.resizing
                                  /\ window.resize_direction # "none"
                                  /\ \/ target = "window"
                                     \/ target = "child" /\ eventFilter_forwards(window, pos)
                                     \/ target = "title_bar"
                                          /\ ~(pointer.buttons = {"left"}
                                               /\ window.drag_position # NoPoint)]
        /\ PointerQuiet

PointerUp ==
    \E pos \in Positions, button \in pointer.buttons :
        /\ window' = CASE pointer.grab = "title_bar" ->
                              TitleBar_mouseReleaseEvent(window)
                        [] pointer.grab = "child" ->
                              IF eventFilter_forwards(window, pos)
                              THEN mouseReleaseEvent(window, button)
                              ELSE window
                        [] pointer.grab = "window" -> mouseReleaseEvent(window, button)
        /\ pointer' = [pos |-> pos, buttons |-> pointer.buttons \ {button},
                       grab |-> IF pointer.buttons = {button} THEN "none"
                                ELSE pointer.grab,
                       presses |-> pointer.presses]
        /\ lastCall' = [NoCall EXCEPT !.op = "pointer_up"]
        /\ PointerQuiet

\* TitleBar.toggle_maximize, from a click of the maximize button or a double
\* click of the title bar: showNormal restores the geometry the window had
\* before showMaximized
ToggleMaximize ==
    /\ pointer.grab = "none"
    /\ window' = IF window.maximized
                 THEN [window EXCEPT !.maximized = FALSE,
                                     !.geometry = window.normal_geometry,
                                     !.normal_geometry = NoGeometry]
                 ELSE [window EXCEPT !.maximized = TRUE,
                                     !.geometry = ScreenGeometry,
                                     !.normal_geometry = window.geometry]
    /\ pointer' = pointer
    /\ lastCall' = [NoCall EXCEPT !.op = "toggle_maximize"]
    /\ PointerQuiet

(***************************************************************************)
(* Navigation and the events of the web engine.                            *)
(***************************************************************************)
\* the user replaces the text of the address bar
TypeInBar(string) ==
    /\ url_bar' = string
    /\ Quiet
    /\ UNCHANGED <<browsers, tabs, tabText, currentIndex, home_url, favorite_btn,
                   zoom_reset_btn, storeVars, now, utcOffset, current_search_engine,
                   input, geoVars, background_image>>

\* navigate_to_url
NavigateToUrl ==
    LET text == Strip(url_bar)
        target == navigate_to_url_target(text, current_search_engine)
        qurl == QUrl(StrUrl(target))
    IN /\ Len(url_bar) <= MaxLen
       /\ reply' = "none"
       /\ lastCall' = NoCall
       /\ UNCHANGED <<tabs, tabText, currentIndex, home_url, zoom_reset_btn, storeVars,
                      now, utcOffset, current_search_engine, input, geoVars, background_image>>
       /\ IF text = <<>>
          THEN /\ classified' = [by |-> "navigate_to_url", text |-> url_bar,
                                 kind |-> "ignored", target |-> <<>>]
               /\ UNCHANGED <<browsers, url_bar, favorite_btn>>
          ELSE /\ classified' = [by |-> "navigate_to_url", text |-> url_bar,
                                 kind |-> IF is_url(text) THEN "url" ELSE "query",
                                 target |-> target]
               /\ UrlChanges(current_browser, qurl)

\* performSearch of the home page shown in the current tab, with string in
\* the page's search box and engine selected in the page
PerformSearch(string, engine) ==
    LET text == Strip(string)
        target == performSearch_target(text, engine)
    IN /\ IsDataUrl(browsers[current_browser].url)
       /\ reply' = "none"
       /\ lastCall' = NoCall
       /\ UNCHANGED <<tabs, tabText, currentIndex, home_url, zoom_reset_btn, storeVars,
                      now, utcOffset, current_search_engine, input, geoVars, background_image>>
       /\ IF text = <<>>
          THEN /\ classified' = [by |-> "performSearch", text |-> string,
                                 kind |-> "ignored", target |-> <<>>]
               /\ UNCHANGED <<browsers, url_bar, favorite_btn>>
          ELSE /\ classified' = [by |-> "performSearch", text |-> string,
                                 kind |-> IF performSearch_isUrl(text)
                                          THEN "url" ELSE "query",
                                 target |-> target]
               /\ UrlChanges(current_browser, QUrl(StrUrl(target)))

\* change_search_engine
ChangeSearchEngine ==
    \E engine \in SearchEngines :
        /\ current_search_engine' = engine
        /\ Quiet
        /\ UNCHANGED <<uiVars, storeVars, now, utcOffset, input, geoVars, background_image>>

\* a favorite card of the home page in the current tab is clicked
CardClicked ==
    \E k \in 1..Len(browsers[current_browser].url.doc.cards) :
        LET card == browsers[current_browser].url.doc.cards[k]
        IN /\ card.filled
           /\ UrlChanges(current_browser, QUrl(StrUrl(card.href)))
           /\ Quiet
           /\ UNCHANGED <<tabs, tabText, currentIndex, home_url, zoom_reset_btn,
                          storeVars, now, utcOffset, current_search_engine,
                       input, geoVars, background_image>>

\* the page of a web view, open or closed, navigates itself to about:blank
PageNavigates ==
    \E b \in 1..Len(browsers) :
        /\ ~IsDataUrl(browsers[b].url)
        /\ UrlChanges(b, AboutBlank)
        /\ reply' = "none"
        /\ lastCall' = [NoCall EXCEPT !.op = "urlChanged", !.url = AboutBlank,
                                      !.browser = b]
        /\ classified' = NotClassified
        /\ UNCHANGED <<tabs, tabText, currentIndex, home_url, zoom_reset_btn,
                       storeVars, now, utcOffset, current_search_engine,
                       input, geoVars, background_image>>

\* the page of an open tab, active or not, goes to another url (a link, a
\* redirect, a script): urlChanged runs update_urlbar(qurl, browser)
LinkFollowed ==
    \E b \in 1..Len(browsers) :
      \E qurl \in {AboutBlank, QUrl(home_url)}
                    \cup {favorites[k].url : k \in 1..Len(favorites)} :
        /\ \E k \in 1..Len(tabs) : tabs[k] = b
        /\ qurl # browsers[b].url
        /\ UrlChanges(b, qurl)
        /\ reply' = "none"
        /\ lastCall' = [NoCall EXCEPT !.op = "urlChanged", !.url = qurl, !.browser = b]
        /\ classified' = NotClassified
        /\ UNCHANGED <<tabs, tabText, currentIndex, home_url, zoom_reset_btn,
                       storeVars, now, utcOffset, current_search_engine,
                       input, geoVars, background_image>>

\* loadFinished(ok) of web view b: update_tab_title(i, browser) with the index
\* captured by add_new_tab, then save_to_history(browser).  The generated
\* home page needs no network, so its load does not fail.
LoadFinished ==
    \E b \in 1..Len(browsers), ok \in BOOLEAN :
        LET url == browsers[b].url
            title == IF ok THEN PageTitle(url) ELSE url.str
            i == browsers[b].i
            saved == save_to_history(history, historySeq, url, title, now)
        IN /\ IsDataUrl(url) => ok
           /\ saved.seq <= MaxHistoryId
           /\ tabText' = IF i <= Len(tabs) THEN [tabText EXCEPT ![i] = TabLabel(title)]
                         ELSE tabText
           /\ history' = saved.rows
           /\ historySeq' = saved.seq
           /\ reply' = "none"
           /\ classified' = NotClassified
           /\ lastCall' = [op |-> "loadFinished", url |-> url, title |-> title,
                           favicon |-> "", ok |-> ok, i |-> i, browser |-> b]
           /\ UNCHANGED <<browsers, tabs, currentIndex, home_url, url_bar,
                          favorite_btn, zoom_reset_btn, favorites, favoritesSeq, now,
                          utcOffset, current_search_engine,
                       input, geoVars, background_image>>

\* time passes: 12 hours, or half a day less than a week
Tick ==
    \E d \in {1, Week - 1} :
        /\ now + d <= MaxTime
        /\ now' = now + d
        /\ Quiet
    /\ UNCHANGED <<uiVars, storeVars, utcOffset, current_search_engine,
                       input, geoVars, background_image>>

(***************************************************************************)
(* Favorites and history handlers.                                         *)
(***************************************************************************)
\* refresh_homepage sending every open tab to the new home page
RefreshedBrowsers_allTabs(newHome) ==
    [b \in 1..Len(browsers) |->
        IF \E k \in 1..Len(tabs) : tabs[k] = b
        THEN [browsers[b] EXCEPT !.url = QUrl(newHome)]
        ELSE browsers[b]]

\* refresh_homepage: the browsers after every open tab that shows a data: page
\* was sent to the new home page
RefreshedBrowsers(newHome) ==
    [b \in 1..Len(browsers) |->
        IF (\E k \in 1..Len(tabs) : tabs[k] = b) /\ IsDataUrl(browsers[b].url)
        THEN [browsers[b] EXCEPT !.url = QUrl(newHome)]
        ELSE browsers[b]]

\* refresh_homepage once the favorites table holds rows and
\* self.background_image has its new value; iconAfter tells whether the
\* handler calls update_favorite_icon afterwards
RefreshHomepage(rows, iconAfter) ==
    \E favs \in get_favorites(rows) :
        LET newHome == create_vice_city_homepage(favs, background_image')
            newBrowsers == RefreshedBrowsers(newHome)
            changed == newBrowsers[current_browser].url # browsers[current_browser].url
        IN /\ home_url' = newHome
           /\ browsers' = newBrowsers
           /\ url_bar' = IF changed THEN UrlBarText(newBrowsers[current_browser].url)
                         ELSE url_bar
           /\ favorite_btn' =
                IF iconAfter \/ changed
                THEN FavoriteIcon(newBrowsers[current_browser].url, rows)
                ELSE favorite_btn

\* toggle_favorite without its test of the url
toggle_favorite_anyPage(url) == TRUE

\* toggle_favorite: whether the page at url can be favorited
toggle_favorite_allowed(url) ==
    ~(url.str = <<>> \/ url.str \in {<<"about:blank">>, <<>>} \/ IsDataUrl(url))

\* toggle_favorite
ToggleFavorite ==
    LET url == browsers[current_browser].url
        title == PageTitle(url)
        added == add_favorite(favorites, favoritesSeq, url, title, PageIcon(url), now)
    IN /\ reply' = "none"
       /\ lastCall' = [op |-> "toggle_favorite", url |-> url, title |-> title,
                       favicon |-> PageIcon(url), ok |-> toggle_favorite_allowed(url),
                       i |-> 0, browser |-> 0]
       /\ classified' = NotClassified
       /\ UNCHANGED <<tabs, tabText, currentIndex, zoom_reset_btn, history, historySeq,
                      now, utcOffset, current_search_engine,
                       input, geoVars, background_image>>
       /\ IF ~toggle_favorite_allowed(url)
          THEN UNCHANGED <<browsers, home_url, url_bar, favorite_btn, favorites,
                           favoritesSeq>>
          ELSE IF is_favorite(favorites, url)
          THEN /\ favorites' = remove_favorite(favorites, url)
               /\ favoritesSeq' = favoritesSeq
               /\ RefreshHomepage(remove_favorite(favorites, url), TRUE)
          ELSE /\ added.seq <= MaxFavoriteId
               /\ favorites' = added.rows
               /\ favoritesSeq' = added.seq
               /\ IF added.ok
                  THEN RefreshHomepage(added.rows, TRUE)
                  ELSE UNCHANGED <<browsers, home_url, url_bar, favorite_btn>>

\* delete_favorite_and_refresh for a row of the starred-pages dialog
DeleteFavoriteAndRefresh ==
    \E k \in 1..Len(favorites), answer \in {"Yes", "No"} :
        /\ reply' = answer
        /\ lastCall' = NoCall
        /\ classified' = NotClassified
        /\ UNCHANGED <<tabs, tabText, currentIndex, zoom_reset_btn, history, historySeq,
                       favoritesSeq, now, utcOffset, current_search_engine,
                       input, geoVars, background_image>>
        /\ IF answer = "Yes"
           THEN /\ favorites' = remove_favorite(favorites, favorites[k].url)
                /\ RefreshHomepage(remove_favorite(favorites, favorites[k].url), FALSE)
           ELSE UNCHANGED <<favorites, browsers, home_url, url_bar, favorite_btn>>

\* select_background_image: the file dialog returns file_path, "" when the
\* user cancels it
SelectBackgroundImage ==
    \E file_path \in BackgroundFiles \cup {""} :
        LET accepted == file_path # "" /\ ~QImage_isNull(file_path)
        IN /\ reply' = "none"
           /\ lastCall' = [NoCall EXCEPT !.op = "select_background_image",
                                         !.title = <<file_path>>,
                                         !.ok = accepted]
           /\ classified' = NotClassified
           /\ UNCHANGED <<tabs, tabText, currentIndex, zoom_reset_btn, storeVars, now,
                          utcOffset, current_search_engine, input, geoVars>>
           /\ IF accepted
              THEN /\ background_image' = file_path
                   /\ RefreshHomepage(favorites, FALSE)
              ELSE UNCHANGED <<background_image, browsers, home_url, url_bar,
                               favorite_btn>>

\* clear_background_image
ClearBackgroundImage ==
    /\ reply' = "none"
    /\ lastCall' = [NoCall EXCEPT !.op = "clear_background_image", !.ok = TRUE]
    /\ classified' = NotClassified
    /\ UNCHANGED <<tabs, tabText, currentIndex, zoom_reset_btn, storeVars, now,
                   utcOffset, current_search_engine, input, geoVars>>
    /\ background_image' = "None"
    /\ RefreshHomepage(favorites, FALSE)

\* delete_history_and_refresh for a row of the history dialog
DeleteHistoryAndRefresh ==
    \E k \in 1..Len(history), answer \in {"Yes", "No"} :
        /\ reply' = answer
        /\ lastCall' = NoCall
        /\ classified' = NotClassified
        /\ history' = IF answer = "Yes" THEN RemoveAt(history, k) ELSE history
        /\ UNCHANGED <<uiVars, historySeq, favorites, favoritesSeq, now, utcOffset,
                       current_search_engine,
                       input, geoVars, background_image>>

\* clear_history_dialog(clear_type), reached from the history dialog
ClearHistoryDialog ==
    \E clear_type \in {"all", "recent", "week"}, answer \in {"Yes", "No"} :
        /\ Len(history) > 0
        /\ reply' = answer
        /\ lastCall' = [op |-> clear_type, url |-> StrUrl(<<>>), title |-> <<>>,
                        favicon |-> "", ok |-> answer = "Yes", i |-> 0, browser |-> 0]
        /\ classified' = NotClassified
        /\ history' = IF answer = "Yes"
                      THEN clear_history(history, clear_type, now, utcOffset)
                      ELSE history
        /\ UNCHANGED <<uiVars, historySeq, favorites, favoritesSeq, now, utcOffset,
                       current_search_engine,
                       input, geoVars, background_image>>

(***************************************************************************)
(* Direct calls of the store's methods.                                    *)
(***************************************************************************)
SomeUrls == {StrUrl(<<"https://", "a", ".", "a">>), StrUrl(<<"https://", "a">>)}
SomeTitles == {<<"A", "&", "B">>, <<>>}

AddFavoriteCall ==
    \E url \in SomeUrls, title \in SomeTitles, favicon \in {"", "favicon.ico"} :
        LET added == add_favorite(favorites, favoritesSeq, url, title, favicon, now)
        IN /\ added.seq <= MaxFavoriteId
           /\ favorites' = added.rows
           /\ favoritesSeq' = added.seq
           /\ lastCall' = [op |-> "add_favorite", url |-> url, title |-> title,
                           favicon |-> favicon, ok |-> added.ok, i |-> 0, browser |-> 0]
           /\ reply' = "none"
           /\ classified' = NotClassified
           /\ UNCHANGED <<uiVars, history, historySeq, now, utcOffset,
                          current_search_engine,
                       input, geoVars, background_image>>

RemoveFavoriteCall ==
    \E url \in SomeUrls :
        /\ favorites' = remove_favorite(favorites, url)
        /\ lastCall' = [op |-> "remove_favorite", url |-> url, title |-> <<>>,
                        favicon |-> "", ok |-> TRUE, i |-> 0, browser |-> 0]
        /\ reply' = "none"
        /\ classified' = NotClassified
        /\ UNCHANGED <<uiVars, history, historySeq, favoritesSeq, now, utcOffset,
                       current_search_engine,
                       input, geoVars, background_image>>

(***************************************************************************)
(* Specifications.                                                         *)
(***************************************************************************)
BarInputs == {<<"a", ".", "a">>}

\* the tab manager
Next ==
    \/ OpenTab
    \/ CloseTab
    \/ ActivateTab
    \/ NavigateHome
    \/ \E string \in BarInputs : TypeInBar(string)
    \/ NavigateToUrl
    \/ CardClicked
    \/ ToggleFavorite

Spec == Init /\ [][Next]_vars

\* the favorites table, through the window and through direct calls
NextStore ==
    \/ NavigateHome
    \/ \E string \in BarInputs : TypeInBar(string)
    \/ NavigateToUrl
    \/ ToggleFavorite
    \/ DeleteFavoriteAndRefresh
    \/ AddFavoriteCall
    \/ RemoveFavoriteCall

SpecStore == Init /\ [][NextStore]_vars

\* the history table of a window with one tab
NextHistory ==
    \/ NavigateHome
    \/ \E string \in BarInputs : TypeInBar(string)
    \/ NavigateToUrl
    \/ PageNavigates
    \/ LoadFinished
    \/ DeleteHistoryAndRefresh
    \/ ClearHistoryDialog

SpecHistory == Init /\ [][NextHistory]_vars

\* the handlers that delete rows of either table
NextDelete ==
    \/ \E string \in BarInputs : TypeInBar(string)
    \/ NavigateToUrl
    \/ LoadFinished
    \/ ToggleFavorite
    \/ DeleteFavoriteAndRefresh
    \/ DeleteHistoryAndRefresh
    \/ ClearHistoryDialog

SpecDelete == Init /\ [][NextDelete]_vars

\* the history table as time passes, on machines east and west of Greenwich
UtcOffsets == {-1, 0, 1}
InitClock == \E offset \in UtcOffsets : InitAt(offset, <<>>)

NextClock ==
    \/ \E string \in BarInputs : TypeInBar(string)
    \/ NavigateToUrl
    \/ LoadFinished
    \/ ClearHistoryDialog
    \/ Tick

SpecClock == InitClock /\ [][NextClock]_vars

\* the two classifiers on every text of at most MaxLen tokens
Strings == StringsUpTo(MaxLen)

NextClassifier ==
    \/ NavigateHome
    \/ ChangeSearchEngine
    \/ TypeInBar(input)
    \/ NavigateToUrl
    \/ \E engine \in SearchEngines : PerformSearch(input, engine)

InitClassifier == \E string \in Strings : InitAt(0, string)

SpecClassifier == InitClassifier /\ [][NextClassifier]_vars

\* The pointer on the frameless window, with and without system resize.
InitGeometry ==
    \E systemResize \in BOOLEAN :
        /\ InitBrowser(0, <<>>)
        /\ window = NewWindow(systemResize)
        /\ pointer = NewPointer

NextGeometry ==
    \/ PointerDown
    \/ PointerMove
    \/ PointerUp

SpecGeometry == InitGeometry /\ [][NextGeometry]_vars

\* The pointer on a window that can be maximized and restored.
NextMaximized ==
    \/ PointerDown
    \/ PointerMove
    \/ PointerUp
    \/ ToggleMaximize

SpecMaximized == InitGeometry /\ [][NextMaximized]_vars

\* The zoom buttons and the layout scale, over the tabs of the window.
NextZoom ==
    \/ OpenTab
    \/ CloseTab
    \/ ActivateTab
    \/ NavigateHome
    \/ ZoomIn
    \/ ZoomOut
    \/ ZoomReset
    \/ ApplyBrowserSettings

SpecZoom == Init /\ [][NextZoom]_vars

\* Search queries typed into the address bar, under each search engine.
QueryTokens == {"a", " ", "&"}
QueryStrings == UNION {[1..n -> QueryTokens] : n \in 0..MaxLen}
InitQuery == \E string \in QueryStrings : InitAt(0, string)
NextQuery ==
    \/ ChangeSearchEngine
    \/ TypeInBar(input)
    \/ NavigateToUrl
    \/ NavigateHome

SpecQuery == InitQuery /\ [][NextQuery]_vars

\* texts for the address bar: a site and a search query
StarInputs == {<<"a", ".", "a">>, <<"a">>}

\* Edge detection on its own: a window or dialog of one of two sizes sits at
\* the origin of the screen, so that local and global points agree, and the
\* pointer hovers over points on both sides of every margin.
EdgeSizes == {[width |-> 1400, height |-> 900], [width |-> 800, height |-> 500]}
EdgeOffsets == {0, 7, 8, 9, 10, 11}
EdgePoints(size) ==
    {[x |-> px, y |-> py] :
        px \in EdgeOffsets \cup {size.width - 1 - o : o \in EdgeOffsets}
                \cup {size.width \div 2},
        py \in EdgeOffsets \cup {size.height - 1 - o : o \in EdgeOffsets}
                \cup {size.height \div 2}}

\* a mouse move over the main window (dialog = FALSE) or over a dialog: the
\* handler asks get_resize_direction for the cursor to show
Hover ==
    \E dialog \in BOOLEAN :
      \E pos \in EdgePoints(window.geometry) :
        /\ ~window.resizing
        /\ pointer.buttons = {}
        /\ pointer' = [pointer EXCEPT !.pos = pos]
        /\ lastCall' =
              [NoCall EXCEPT
                 !.op = IF dialog THEN "FramelessDialog.get_resize_direction"
                        ELSE "get_resize_direction",
                 !.title =
                    <<IF dialog
                      THEN FramelessDialog_get_resize_direction(
                               pos, window.geometry.width, window.geometry.height)
                      ELSE get_resize_direction(
                               pos, window.geometry.width, window.geometry.height)>>]
        /\ UNCHANGED window
        /\ PointerQuiet

InitEdge ==
    \E size \in EdgeSizes :
        /\ InitBrowser(0, <<>>)
        /\ window = [NewWindow(TRUE) EXCEPT
                        !.geometry = [x |-> 0, y |-> 0, width |-> size.width,
                                      height |-> size.height]]
        /\ pointer = [NewPointer EXCEPT
                         !.pos = [x |-> size.width \div 2, y |-> size.height \div 2]]
NextEdge == Hover
SpecEdge == InitEdge /\ [][NextEdge]_vars

\* the signals of the web views as tabs are opened and closed
NextSession ==
    \/ OpenTab
    \/ CloseTab
    \/ ActivateTab
    \/ \E string \in StarInputs : TypeInBar(string)
    \/ NavigateToUrl
    \/ PageNavigates
    \/ LoadFinished

SpecSession == Init /\ [][NextSession]_vars

\* the star button on the home page, a blank page, a site and a result page
NextStar ==
    \/ \E string \in StarInputs : TypeInBar(string)
    \/ NavigateToUrl
    \/ NavigateHome
    \/ PageNavigates
    \/ CardClicked
    \/ ToggleFavorite

SpecStar == Init /\ [][NextStar]_vars

\* the home page as favorites and the background image change
NextHome ==
    \/ OpenTab
    \/ ActivateTab
    \/ \E string \in BarInputs : TypeInBar(string)
    \/ NavigateToUrl
    \/ ToggleFavorite
    \/ DeleteFavoriteAndRefresh
    \/ SelectBackgroundImage
    \/ ClearBackgroundImage

SpecHome == Init /\ [][NextHome]_vars

\* the home page of a window that opens on a database with favorites in it
InitCards ==
    \E n \in 0..MaxStored, pattern \in 0..2 :
        /\ InitStored(0, <<>>, StoredFavorites(n, pattern))
        /\ window = NewWindow(TRUE)
        /\ pointer = NewPointer
NextCards == DeleteFavoriteAndRefresh
SpecCards == InitCards /\ [][NextCards]_vars

\* The titles of the cards: the window opens on a database with two
\* favorites whose titles are empty, short, or as long as the lengths around
\* which create_vice_city_homepage cuts, with the characters it escapes
\* before and after the cut.
TitleLengths == {0, 5, 27, 28, 29, 30, 31}
TitleOf(n) ==
    [k \in 1..n |-> CASE k = 2 -> "&"
                      [] k = 3 -> ">"
                      [] k = 4 -> "\""
                      [] k = 28 -> "<"
                      [] OTHER -> "x"]
TitledFavorites(lens) ==
    [k \in 1..Len(lens) |->
        [id |-> k, url |-> StrUrl(<<"https://", ToString(k)>>),
         title |-> TitleOf(lens[k]), favicon |-> "favicon.ico", timestamp |-> k]]

InitTitles ==
    \E n1 \in TitleLengths, n2 \in TitleLengths :
        /\ InitStored(0, <<>>, TitledFavorites(<<n1, n2>>))
        /\ window = NewWindow(TRUE)
        /\ pointer = NewPointer
NextTitles == DeleteFavoriteAndRefresh
SpecTitles == InitTitles /\ [][NextTitles]_vars

\* The address bar of a window nobody types into: tabs are opened, closed
\* and selected, and the pages of the open tabs change their urls.
InitUrlBar ==
    /\ InitStored(0, <<>>, StoredFavorites(2, 2))
    /\ window = NewWindow(TRUE)
    /\ pointer = NewPointer
NextUrlBar ==
    \/ OpenTab
    \/ CloseTab
    \/ ActivateTab
    \/ LinkFollowed

SpecUrlBar == InitUrlBar /\ [][NextUrlBar]_vars

(***************************************************************************)
(* Properties.                                                             *)
(***************************************************************************)
Navigable(url) ==
    url.str # <<>> /\ url.str # <<"about:blank">> /\ ~IsDataUrl(url)

\* C1: after any sequence of add_new_tab and close_tab the window has at
\* least one open tab.
C1_AtLeastOneTab == Len(tabs) >= 1

\* close_tab was just called on the only tab, after a second tab was opened
\* and closed
C1_Witness ==
    /\ lastCall.op = "close_tab"
    /\ lastCall.ok
    /\ Len(browsers) = 2
    /\ Len(tabs) = 1

\* C2: close_tab(i) on the only tab removes nothing and leaves that tab at the
\* current home page with zoom 0.9; with two or more tabs it removes exactly
\* tab i and changes the url and zoom of no web view.
C2_CloseTabEffect ==
    [][lastCall'.op = "close_tab" =>
         IF Len(tabs) = 1
         THEN /\ tabs' = tabs
              /\ browsers'[tabs'[1]].url = QUrl(home_url')
              /\ zoomFactor(browsers'[tabs'[1]]) = DoubleLiteral(90)
         ELSE /\ tabs' = RemoveAt(tabs, lastCall'.i)
              /\ Len(tabs') = Len(tabs) - 1
              /\ \A b \in 1..Len(browsers) :
                     /\ browsers'[b].url = browsers[b].url
                     /\ zoomFactor(browsers'[b]) = zoomFactor(browsers[b])]_vars

\* one of two tabs was just closed while the other shows a web page
C2_Witness ==
    /\ lastCall.op = "close_tab"
    /\ ~lastCall.ok
    /\ Len(tabs) = 1
    /\ Navigable(browsers[tabs[1]].url)

\* C3: the favorites table never holds two rows with the same url.
C3_OneRowPerUrl ==
    \A j, k \in 1..Len(favorites) :
        favorites[j].url = favorites[k].url => j = k

\* add_favorite was just refused for a url already stored, with two urls stored
C3_Witness ==
    /\ lastCall.op = "add_favorite"
    /\ ~lastCall.ok
    /\ Len(favorites) = 2

\* C4: add_favorite of a url that is not stored succeeds and stores one row
\* with the title and favicon given; add_favorite of a stored url fails and
\* leaves the table as it was, so every listing still shows the row of the
\* first call.
C4_SecondAddFails ==
    [][lastCall'.op = "add_favorite" =>
         IF is_favorite(favorites, lastCall'.url)
         THEN /\ ~lastCall'.ok
              /\ favorites' = favorites
         ELSE /\ lastCall'.ok
              /\ \A listing \in get_favorites(favorites') :
                     /\ Cardinality({k \in 1..Len(listing) :
                                        listing[k].url = lastCall'.url}) = 1
                     /\ \A k \in 1..Len(listing) :
                            listing[k].url = lastCall'.url =>
                                /\ listing[k].title = lastCall'.title
                                /\ listing[k].favicon = lastCall'.favicon]_vars

\* the second add_favorite of a url came with another title and was refused
C4_Witness ==
    /\ lastCall.op = "add_favorite"
    /\ ~lastCall.ok
    /\ \E k \in 1..Len(favorites) :
           /\ favorites[k].url = lastCall.url
           /\ favorites[k].title # lastCall.title

\* C5: save_to_history never stores the internal home page: no history row
\* has a data:text/html url.
C5_NoHomePageInHistory ==
    \A k \in 1..Len(history) : ~IsDataUrl(history[k].url)

\* C6: a loadFinished event appends exactly one history row when it reports
\* success for a navigable url, and none when it reports failure.
C6_LoadFinishedRecords ==
    [][lastCall'.op = "loadFinished" =>
         /\ (lastCall'.ok /\ Navigable(lastCall'.url)) =>
                /\ Len(history') = Len(history) + 1
                /\ SubSeq(history', 1, Len(history)) = history
                /\ history'[Len(history')].url = lastCall'.url
         /\ ~lastCall'.ok => history' = history]_vars

\* C7: a confirmed clear_history_dialog deletes exactly the rows whose
\* timestamp is at or after now minus one day ("recent"), now minus seven
\* days ("week"), or every row ("all"), timestamps and now on one clock.
C7_ClearDeletesByAge ==
    [][(lastCall'.op \in {"all", "recent", "week"} /\ lastCall'.ok) =>
         LET KeepAll(r) == FALSE
             KeepRecent(r) == r.timestamp < now - Day
             KeepWeek(r) == r.timestamp < now - Week
         IN history' = CASE lastCall'.op = "all" -> SelectSeq(history, KeepAll)
                         [] lastCall'.op = "recent" -> SelectSeq(history, KeepRecent)
                         [] lastCall'.op = "week" -> SelectSeq(history, KeepWeek)]_vars

\* C8: a row leaves the history or the favorites table only in a step whose
\* confirmation was answered Yes, and a declined confirmation changes
\* neither table.
C8_DeleteNeedsYes ==
    [][/\ (\/ \E k \in 1..Len(history) :
                 \A j \in 1..Len(history') : history'[j].id # history[k].id
           \/ \E k \in 1..Len(favorites) :
                 \A j \in 1..Len(favorites') : favorites'[j].id # favorites[k].id)
          => reply' = "Yes"
       /\ reply' = "No" => (history' = history /\ favorites' = favorites)]_vars

\* C9: navigate_to_url treats every text with a space in it as a search
\* query, whatever its dots and its prefix.
C9_SpaceMeansQuery ==
    (classified.by = "navigate_to_url" /\ Contains(Strip(classified.text), " "))
        => classified.kind = "query"

\* a text with a scheme prefix, a dot and an inner space was just classified
C9_Witness ==
    /\ classified.by = "navigate_to_url"
    /\ StartsWithAny(Strip(classified.text), Schemes)
    /\ Contains(Strip(classified.text), ".")
    /\ Contains(Strip(classified.text), " ")

\* C10: on every non-empty trimmed text is_url and performSearch agree, and
\* both equal the rule: URL if the text has a scheme prefix; else URL if it
\* has a dot, neither begins nor ends with a dot, and has no space; else
\* search query.  (The dot clause is read the way both classifiers test it.)
C10_ClassifiersFollowRule ==
    (classified.by # "none" /\ classified.kind # "ignored") =>
        LET text == Strip(classified.text)
            rule == \/ StartsWithAny(text, Schemes)
                    \/ /\ Contains(text, ".")
                       /\ ~StartsWith(text, ".")
                       /\ ~EndsWith(text, ".")
                       /\ ~Contains(text, " ")
        IN /\ is_url(text) = performSearch_isUrl(text)
           /\ (classified.kind = "url") = rule

\* C11: when navigate_to_url classifies the text as a URL it navigates to the
\* text unchanged if the text starts with http://, https://, file:// or
\* ftp://, and to https:// followed by the text otherwise.
C11_PrefixOnlyWithoutScheme ==
    (classified.by = "navigate_to_url" /\ classified.kind = "url") =>
        LET text == Strip(classified.text)
        IN classified.target = IF StartsWithAny(text, Schemes)
                               THEN text
                               ELSE <<"https://">> \o text

\* C12: when navigate_to_url classifies the text as a search query, the url
\* requested is the template of the selected engine with the percent-encoded
\* text in place of the query.
C12_QueryIsPercentEncoded ==
    (classified.by = "navigate_to_url" /\ classified.kind = "query") =>
        QUrl_toEncoded(QUrl(StrUrl(classified.target)))
            = search_engines(current_search_engine)
                  \o encodeURIComponent(Strip(classified.text))

\* C13: ten zoom_in calls in a row after a zoom_reset (zoom 1.0) leave the
\* zoom factor at exactly 2.0, and twenty-eight leave it at exactly 3.0.
C13_TenZoomInsGiveTwo ==
    /\ (lastCall.op = "zoom_in" /\ lastCall.i = 10) =>
           zoomFactor(browsers[current_browser]) = [zoom |-> 200, err |-> 0]
    /\ (lastCall.op = "zoom_in" /\ lastCall.i = 28) =>
           zoomFactor(browsers[current_browser]) = [zoom |-> 300, err |-> 0]

\* C14: the zoom factor of every open tab lies between 0.25 and 3.0.
C14_ZoomInRange ==
    \A t \in 1..Len(tabs) :
        /\ DoubleLE(DoubleLiteral(25), zoomFactor(browsers[tabs[t]]))
        /\ DoubleLE(zoomFactor(browsers[tabs[t]]), DoubleLiteral(300))

\* zoom_in was just called on a tab already at 3.0 while another tab is at 0.25
C14_Witness ==
    /\ lastCall.op = "zoom_in"
    /\ zoomFactor(browsers[current_browser]) = DoubleLiteral(300)
    /\ \E t \in 1..Len(tabs) : zoomFactor(browsers[tabs[t]]) = DoubleLiteral(25)

\* the pointer delta of the resize step that was just taken
ResizeDx == pointer'.pos.x - window.resize_start_pos.x
ResizeDy == pointer'.pos.y - window.resize_start_pos.y
\* the width and height the delta asks for, before any clamping
AskedWidth ==
    IF InDirection("left", window.resize_direction)
    THEN window.resize_start_geometry.width - ResizeDx
    ELSE IF InDirection("right", window.resize_direction)
         THEN window.resize_start_geometry.width + ResizeDx
         ELSE window.resize_start_geometry.width
AskedHeight ==
    IF InDirection("top", window.resize_direction)
    THEN window.resize_start_geometry.height - ResizeDy
    ELSE IF InDirection("bottom", window.resize_direction)
         THEN window.resize_start_geometry.height + ResizeDy
         ELSE window.resize_start_geometry.height

\* C15: a resize step whose sizes stay at or above the minimum gives width
\* w0+dx for a right edge and w0-dx with origin x0+dx for a left edge, height
\* h0+dy for a bottom edge and h0-dy with origin y0+dy for a top edge, and
\* leaves the other axis as it was at press time.
C15_ResizeGeometry ==
    [][(/\ lastCall'.op = "pointer_move"
        /\ lastCall'.ok
        /\ AskedWidth >= minimumWidth
        /\ AskedHeight >= minimumHeight) =>
         window'.geometry =
             [x |-> IF InDirection("left", window.resize_direction)
                    THEN window.resize_start_geometry.x + ResizeDx
                    ELSE window.resize_start_geometry.x,
              y |-> IF InDirection("top", window.resize_direction)
                    THEN window.resize_start_geometry.y + ResizeDy
                    ELSE window.resize_start_geometry.y,
              width |-> AskedWidth,
              height |-> AskedHeight]]_vars

\* a resize from the top left corner has just moved both origins
C15_Witness ==
    /\ lastCall.op = "pointer_move"
    /\ lastCall.ok
    /\ window.resize_direction = "top_left"
    /\ window.geometry.x > window.resize_start_geometry.x
    /\ window.geometry.y > window.resize_start_geometry.y
    /\ window.geometry.width < window.resize_start_geometry.width
    /\ window.geometry.height < window.resize_start_geometry.height

\* C16: a resize step that asks for less than the minimum width (height)
\* gives exactly the minimum width (height) and leaves the origin on that axis
\* where it was at press time; no resize step goes below the minimum.
C16_ResizeClampsToMinimum ==
    [][(lastCall'.op = "pointer_move" /\ lastCall'.ok) =>
         /\ window'.geometry.width >= minimumWidth
         /\ window'.geometry.height >= minimumHeight
         /\ AskedWidth < minimumWidth =>
                /\ window'.geometry.width = minimumWidth
                /\ window'.geometry.x = window.resize_start_geometry.x
         /\ AskedHeight < minimumHeight =>
                /\ window'.geometry.height = minimumHeight
                /\ window'.geometry.y = window.resize_start_geometry.y]_vars

\* C17: after every release of a mouse button the window is idle (not
\* resizing, no active edge, no drag anchor), and a pointer move with no
\* button down leaves the geometry of the window alone.
C17_ReleaseResetsToIdle ==
    [][/\ lastCall'.op = "pointer_up" =>
              /\ ~window'.resizing
              /\ window'.resize_direction = "none"
              /\ window'.drag_position = NoPoint
       /\ (lastCall'.op = "pointer_move" /\ pointer.buttons = {}) =>
              window'.geometry = window.geometry]_vars

\* the row of the favorites table a filled card of the home page links to
CardRow(card) == CHOOSE j \in 1..Len(favorites) : favorites[j].url.str = card.href

C19_HomePageRegenerated ==
    [][(favorites' # favorites \/ background_image' # background_image) =>
         /\ \E favs \in get_favorites(favorites') :
                home_url' = create_vice_city_homepage(favs, background_image')
         /\ tabs' = tabs
         /\ \A k \in 1..Len(tabs) :
                IF browsers[tabs[k]].url = QUrl(home_url)
                THEN browsers'[tabs[k]].url = QUrl(home_url')
                ELSE browsers'[tabs[k]].url = browsers[tabs[k]].url]_vars

\* a page was just starred while a picture is the background: one tab shows
\* the new home page with its card, the other still shows the starred page
C19_Witness ==
    /\ lastCall.op = "toggle_favorite"
    /\ lastCall.ok
    /\ Len(favorites) = 1
    /\ home_url.doc.background = "photo.png"
    /\ home_url.doc.cards[1].filled
    /\ Len(tabs) = 2
    /\ \E k \in 1..2 : browsers[tabs[k]].url = QUrl(home_url)
    /\ browsers[tabs[currentIndex]].url = favorites[1].url

\* C20: toggle_favorite on a tab whose url is empty, about:blank or the home
\* page leaves the favorites table as it was; on any other url it flips
\* whether the url is a favorite and leaves the other rows alone, and a row it
\* adds holds the title and the favicon of the tab's page.
C20_ToggleFavorite ==
    [][lastCall'.op = "toggle_favorite" =>
         LET url == browsers[current_browser].url
             Other(r) == r.url # url
         IN IF url.str = <<>> \/ url = AboutBlank \/ url = QUrl(home_url)
            THEN /\ favorites' = favorites
                 /\ ~lastCall'.ok
            ELSE /\ is_favorite(favorites', url) = ~is_favorite(favorites, url)
                 /\ SelectSeq(favorites', Other) = SelectSeq(favorites, Other)
                 /\ is_favorite(favorites', url) =>
                        \E k \in 1..Len(favorites') :
                            /\ favorites'[k].url = url
                            /\ favorites'[k].title = PageTitle(url)
                            /\ favorites'[k].favicon = PageIcon(url)]_vars

\* a page of search results was just starred next to an earlier favorite; its
\* row holds the long title of the page and no favicon
C20_Witness ==
    /\ lastCall.op = "toggle_favorite"
    /\ lastCall.ok
    /\ Len(favorites) = 2
    /\ \E k \in 1..2 :
           /\ favorites[k].url = browsers[current_browser].url
           /\ favorites[k].title = LongTitle
           /\ favorites[k].favicon = ""

\* C21: select_background_image with a file that is not an image, or with
\* the file dialog cancelled, leaves self.background_image and the home page
\* as they were.
C21_InvalidImageKeepsBackground ==
    [][(/\ lastCall'.op = "select_background_image"
        /\ lastCall'.title \in {<<"notes.png">>, <<"">>}) =>
         /\ background_image' = background_image
         /\ home_url' = home_url
         /\ browsers' = browsers]_vars

\* a file that is not an image was just picked while a picture is the
\* background, and the picture still is
C21_Witness ==
    /\ lastCall.op = "select_background_image"
    /\ lastCall.title = <<"notes.png">>
    /\ background_image = "photo.png"
    /\ home_url.doc.background = "photo.png"

\* C22: add_new_tab(url) appends one tab to the tab strip and makes it the
\* current tab; the zoom factor of its web view is 0.9 when url is
\* self.home_url and 1.0 otherwise; url and zoom of the web views that
\* existed before stay as they were.
C22_OpenTabEffect ==
    [][lastCall'.op = "add_new_tab" =>
         LET b == Len(browsers) + 1
         IN /\ tabs' = Append(tabs, b)
            /\ currentIndex' = Len(tabs')
            /\ browsers'[b].url = QUrl(lastCall'.url)
            /\ zoomFactor(browsers'[b]) =
                   (IF lastCall'.url = home_url THEN DoubleLiteral(90)
                    ELSE DoubleLiteral(100))
            /\ \A a \in 1..Len(browsers) :
                   /\ browsers'[a].url = browsers[a].url
                   /\ zoomFactor(browsers'[a]) = zoomFactor(browsers[a])]_vars

\* C23: the zoom indicator shows round(zoom * 100) for the zoom factor of the
\* current tab; the factor is within 2^-40 of a whole number of hundredths,
\* so the rounded percentage is that number.
C23_ZoomIndicator ==
    zoom_reset_btn = browsers[current_browser].zoom

\* whether web view b sits in a tab of the tab strip
IsOpen(b) == \E k \in 1..Len(tabs) : tabs[k] = b

\* C24: a loadFinished signal of a web view that sits in a tab sets the label
\* of that tab to the title of its page, cut to 20 characters and "..." when
\* it is longer, and leaves the labels of the other tabs alone.
C24_LoadFinishedLabelsOwnTab ==
    [][(lastCall'.op = "loadFinished" /\ IsOpen(lastCall'.browser)) =>
         /\ Len(tabText') = Len(tabs)
         /\ \A k \in 1..Len(tabs) :
                tabText'[k] =
                    IF tabs[k] = lastCall'.browser
                    THEN (IF Len(lastCall'.title) > 20
                          THEN SubSeq(lastCall'.title, 1, 20) \o <<".", ".", ".">>
                          ELSE lastCall'.title)
                    ELSE tabText[k]]_vars

\* C25: a signal (urlChanged, loadFinished) of a web view whose tab was
\* closed appends no history row, changes no tab label and leaves the
\* address bar alone.
C25_ClosedSessionIsSilent ==
    [][(/\ lastCall'.op \in {"loadFinished", "urlChanged"}
        /\ ~IsOpen(lastCall'.browser)) =>
         /\ history' = history
         /\ tabText' = tabText
         /\ url_bar' = url_bar]_vars

\* the margin of the window or dialog whose get_resize_direction ran last
EdgeMargin ==
    IF lastCall.op = "get_resize_direction" THEN resize_margin
    ELSE FramelessDialog_resize_margin

\* C26: for a local point (x, y) of a window W wide and H high with margin m,
\* get_resize_direction returns a direction with "left" in it iff x <= m,
\* with "right" iff x >= W - m, with "top" iff y <= m, with "bottom" iff
\* y >= H - m: a corner when a horizontal and a vertical test hold, the one
\* edge when one test holds, none when none holds.
C26_ClassifyEdge ==
    lastCall.op \in {"get_resize_direction", "FramelessDialog.get_resize_direction"} =>
        LET direction == lastCall.title[1]
            x == pointer.pos.x
            y == pointer.pos.y
            W == window.geometry.width
            H == window.geometry.height
        IN /\ direction \in {"left", "top_left", "bottom_left"} <=> x <= EdgeMargin
           /\ direction \in {"right", "top_right", "bottom_right"} <=>
                  x >= W - EdgeMargin
           /\ direction \in {"top", "top_left", "top_right"} <=> y <= EdgeMargin
           /\ direction \in {"bottom", "bottom_left", "bottom_right"} <=>
                  y >= H - EdgeMargin
           /\ direction \in {"none", "left", "right", "top", "bottom", "top_left",
                              "top_right", "bottom_left", "bottom_right"}

\* the pointer is exactly the margin away from the right and bottom borders
\* of the main window and the corner is reported
C26_Witness ==
    /\ lastCall.op = "get_resize_direction"
    /\ lastCall.title = <<"bottom_right">>
    /\ pointer.pos.x = window.geometry.width - resize_margin
    /\ pointer.pos.y = window.geometry.height - resize_margin

\* C27: while the main window is maximized, a pointer press, move or release
\* leaves the window's geometry as it is and does not start a resize
C27_MaximizedWindowIsFixed ==
    [][(window.maximized /\ window'.maximized
          /\ lastCall'.op \in {"pointer_down", "pointer_move", "pointer_up"})
       => /\ window'.geometry = window.geometry
          /\ window'.resizing => window.resizing]_vars

\* C28: the title of a favorite's card is the stored title, or the url when
\* the title is empty; a title of more than 27 characters is shown as its
\* first 27 characters and an ellipsis, a shorter one in full, and & < > "
\* of the shown title are replaced by their HTML entities
C28_CardTitle ==
    \A k \in 1..Len(home_url.doc.cards) :
        LET card == home_url.doc.cards[k]
            fav == favorites[CardRow(card)]
            title == IF fav.title # <<>> THEN fav.title ELSE fav.url.str
            shown == IF Len(title) > 27 THEN SubSeq(title, 1, 27) \o Ellipsis
                     ELSE title
        IN card.filled => card.title = [j \in 1..Len(shown) |-> EscapeChar(shown[j])]

\* C29: the address bar shows the url of the active tab, and nothing when
\* the active tab shows the home page; a urlChanged of a tab that is not the
\* active one leaves the address bar as it was
C29_UrlBarShowsActiveTab ==
    /\ [](LET url == browsers[tabs[currentIndex]].url
          IN IF StartsWith(url.str, "data:text/html") THEN url_bar = <<>>
             ELSE url_bar = url.str)
    /\ [][(lastCall'.op = "urlChanged" /\ lastCall'.browser # tabs'[currentIndex'])
            => url_bar' = url_bar]_vars

\* the page of the background tab has just gone to a favorite while the
\* active tab shows about:blank
C29_Witness ==
    /\ lastCall.op = "urlChanged"
    /\ Len(tabs) = 2
    /\ lastCall.browser # tabs[currentIndex]
    /\ browsers[lastCall.browser].url = favorites[1].url
    /\ browsers[tabs[currentIndex]].url = AboutBlank
    /\ url_bar = <<"about:blank">>

\* C30: the favorite button shows the filled star exactly when the url of
\* the active tab is not empty, not about:blank, not the home page, and is a
\* row of the favorites table
C30_StarIndicator ==
    LET url == browsers[tabs[currentIndex]].url
    IN favorite_btn = "star" <=> (Navigable(url) /\ is_favorite(favorites, url))

====
